---- MODULE Spec2Model ----
(***************************************************************************)
(* State-machine model of steem/transactionbuilder.py: TransactionBuilder, *)
(* a dict subclass that accumulates operations and signing keys, builds    *)
(* the transaction record, signs it and broadcasts it.                     *)
(*                                                                         *)
(* The builder IS a dict: the variable tx is that mapping (a function from *)
(* the keys present to their values), and op, wifs, no_broadcast and       *)
(* expiration are the instance attributes set by __init__.                 *)
(***************************************************************************)
EXTENDS Integers, Sequences, FiniteSets, TLC

VARIABLES
    built,          \* TRUE once __init__ has returned (FALSE: it raised)
    no_broadcast,   \* self.no_broadcast
    op,             \* self.op   : raw operation descriptors, in call order
    wifs,           \* self.wifs : key material to sign with
    tx,             \* the dict itself (self.json())
    passed,         \* history: every descriptor handed to appendOps so far
    appended,       \* history: appendOps has been called
    lastOp,         \* history: the method called last, <<name>>; the
                    \*          constructor with its argument, <<name, tx>>
    err,            \* history: "ok" or the exception the last call raised
    calls           \* history: collaborator calls made by the last broadcast()

vars == <<built, no_broadcast, op, wifs, tx, passed, appended,
          lastOp, err, calls>>

-----------------------------------------------------------------------------
(* Bounds of the model *)

MaxOps == 2         \* longest self.op explored
MaxWifs == 2        \* longest self.wifs explored
MaxSigs == 3        \* longest signatures list explored

(* Program constant: the default of __init__'s expiration parameter *)
expiration == 30

-----------------------------------------------------------------------------
(* Generic helpers: Python dict and list behaviour *)

\* dict.update(new) / dict.__init__(new) on an existing dict: keys of new
\* are written, every other key is kept.
Update(d, new) ==
    [k \in (DOMAIN d) \cup (DOMAIN new) |->
        IF k \in DOMAIN new THEN new[k] ELSE d[k]]

\* dict.get(key, default)
Get(d, k, default) ==
    IF k \in DOMAIN d THEN d[k] ELSE default

IsPrefix(s, t) ==
    /\ Len(s) <= Len(t)
    /\ \A i \in 1..Len(s) : s[i] = t[i]

Range(s) ==
    {s[i] : i \in 1..Len(s)}

\* the lists of length at most n over S
SeqsUpTo(S, n) ==
    UNION {[1..k -> S] : k \in 0..n}

-----------------------------------------------------------------------------
(* Collaborators: steembase operations / transactions / keys *)

None == "None"

\* Raw operation descriptors a caller passes: an operation object, or the
\* same operation already wrapped.
RawOps ==
    {<<"object", "vote">>, <<"wrapped", "transfer">>}

\* Operation(o): wraps a raw descriptor into its canonical record
Operation(o) ==
    [type |-> o[2]]

\* [Operation(o) for o in ops]
Canonical(ops) ==
    [i \in 1..Len(ops) |-> Operation(ops[i])]

\* Chain head as seen by get_block_params / the clock at a call
ChainStates ==
    {[num |-> 1, prefix |-> 11, now |-> 100],
     [num |-> 2, prefix |-> 22, now |-> 103]}

get_block_params(c) ==
    <<c.num, c.prefix>>

fmt_time_from_now(c, secs) ==
    c.now + secs

\* SignedTransaction(...).json() of a freshly constructed transaction
SignedTransactionJson(num, prefix, exp, ops) ==
    [ref_block_num |-> num, ref_block_prefix |-> prefix,
     expiration |-> exp, operations |-> ops, signatures |-> <<>>]

\* SignedTransaction(**record) succeeds: the record is transaction-shaped
TxShaped(d) ==
    {"ref_block_num", "ref_block_prefix", "expiration", "operations"}
        \subseteq DOMAIN d

\* What a signature is made over
Digest(d) ==
    <<d.ref_block_num, d.ref_block_prefix, d.expiration, d.operations>>

\* signedtx.sign(wifs).json()["signatures"]: one signature per key
Signatures(ws, d) ==
    [i \in 1..Len(ws) |-> [key |-> ws[i], digest |-> Digest(d)]]

\* Well-formed private keys, and the other material a caller may pass
Keys == {"k1", "k2"}
Malformed == {"not-a-key"}
Falsy == {"", None}
Materials == Keys \cup Malformed \cup Falsy

\* PrivateKey(wif) does not raise
ValidKey(w) ==
    w \in Keys

\* Python truthiness of a wif
Truthy(w) ==
    w \notin Falsy

\* any(ws)
AnyTruthy(ws) ==
    \E i \in 1..Len(ws) : Truthy(ws[i])

-----------------------------------------------------------------------------
(* Collaborators: account directory and wallet *)

KnownAccounts == {"alice", "bob", "carol"}
AccountNames == KnownAccounts \cup {"dave"}
ValidPermissions == {"active", "posting", "owner"}
Permissions == ValidPermissions \cup {"memo"}

Authority(keys, accts) ==
    [weight_threshold |-> 1, key_auths |-> keys, account_auths |-> accts]

\* Account(name): the account record, per permission
Account(name) ==
    CASE name = "alice" ->
            [active  |-> Authority(<<<<"pubA", 1>>>>, <<<<"bob", 1>>>>),
             posting |-> Authority(<<<<"pubP", 1>>, <<"pubA", 1>>>>, <<>>),
             owner   |-> Authority(<<<<"pubA", 1>>>>,
                                   <<<<"carol", 1>>, <<"bob", 1>>>>)]
      [] name = "bob" ->
            [active  |-> Authority(<<<<"pubB", 1>>, <<"pubA", 1>>>>,
                                   <<<<"carol", 1>>>>),
             posting |-> Authority(<<<<"pubB", 1>>>>, <<>>),
             owner   |-> Authority(<<<<"pubB", 1>>>>, <<<<"alice", 1>>>>)]
      [] name = "carol" ->
            [active  |-> Authority(<<<<"pubC", 1>>>>, <<<<"dave", 1>>>>),
             posting |-> Authority(<<<<"pubC", 1>>>>, <<>>),
             owner   |-> Authority(<<<<"pubC", 1>>>>, <<>>)]

\* wallet.getActiveKeyForAccount / getPostingKeyForAccount /
\* getOwnerKeyForAccount: the key, or None when the wallet has none
getKeyForAccount(name, permission) ==
    CASE name = "alice" /\ permission = "active" -> "k1"
      [] name = "carol" /\ permission = "active" -> "k2"
      [] name = "bob" /\ permission = "posting" -> "k2"
      [] OTHER -> None

\* wallet.getPrivateKeyForPublicKey(pub)
getPrivateKeyForPublicKey(pub) ==
    CASE pub = "pubA" -> "k1"
      [] pub = "pubC" -> "k2"
      [] OTHER -> None

\* self.steem.chain_params
chain_params ==
    "STEEM"

-----------------------------------------------------------------------------
(* __init__ *)

\* A signature some other holder already made, carried by a seed record
SeedSignature ==
    [key |-> "k9", digest |-> <<7, 77, 130, <<[type |-> "vote"]>>>>]

\* The tx arguments explored: no seed, falsy and truthy values that are not
\* mappings, a mapping without the transaction fields, and transaction
\* records (with operations and a signature; with neither).
Seeds ==
    {"None", "EmptyString", "String", "OtherMapping", "SignedTx", "EmptyTx"}

SeedIsMapping(s) ==
    s \in {"OtherMapping", "SignedTx", "EmptyTx"}

SeedIsFalsy(s) ==
    s \in {"None", "EmptyString"}

SeedRecord(s) ==
    CASE s = "OtherMapping" -> [memo |-> "hello"]
      [] s = "SignedTx" ->
            [ref_block_num |-> 7, ref_block_prefix |-> 77, expiration |-> 130,
             operations |-> <<[type |-> "vote"]>>,
             signatures |-> <<SeedSignature>>]
      [] s = "EmptyTx" ->
            [ref_block_num |-> 7, ref_block_prefix |-> 77, expiration |-> 130,
             operations |-> <<>>, signatures |-> <<>>]

\* __init__ without the type check of its tx argument
InitRaises_never(s) ==
    FALSE

\* if tx and not isinstance(tx, dict): raise ValueError
InitRaises(s) ==
    ~SeedIsFalsy(s) /\ ~SeedIsMapping(s)

\* tx or {}
InitRecord(s) ==
    IF SeedIsFalsy(s) \/ ~SeedIsMapping(s) THEN <<>> ELSE SeedRecord(s)

\* The state __init__(tx = seed, no_broadcast = nb) leaves
Constructor(seed, nb) ==
    /\ no_broadcast = nb
    /\ built = ~InitRaises(seed)
    /\ op = <<>>
    /\ wifs = <<>>
    /\ tx = InitRecord(seed)
    /\ passed = <<>>
    /\ appended = FALSE
    /\ lastOp = <<"__init__", seed>>
    /\ err = IF InitRaises(seed) THEN "ValueError" ELSE "ok"
    /\ calls = <<>>

Init ==
    \E seed \in Seeds, nb \in BOOLEAN : Constructor(seed, nb)

\* self.json()
json ==
    tx

\* the signatures of the record, none while the key is absent
signatures ==
    Get(tx, "signatures", <<>>)

-----------------------------------------------------------------------------
(* constructTx and appendOps *)

\* The record after constructTx has run on operation list ops with the
\* chain at c: the fresh transaction's json() written over the dict.
Constructed(d, ops, c) ==
    Update(d, SignedTransactionJson(get_block_params(c)[1],
                                    get_block_params(c)[2],
                                    fmt_time_from_now(c, expiration),
                                    Canonical(ops)))

constructTx(c) ==
    /\ built
    /\ tx' = Constructed(tx, op, c)
    /\ lastOp' = <<"constructTx">>
    /\ err' = "ok"
    /\ calls' = <<>>
    /\ UNCHANGED <<built, no_broadcast, op, wifs, passed, appended>>

\* The arguments of appendOps explored: one descriptor, or a list of them
OpsArguments ==
    {[isList |-> FALSE, items |-> <<o>>] : o \in RawOps}
        \cup {[isList |-> TRUE, items |-> l] : l \in SeqsUpTo(RawOps, MaxOps)}

\* appendOps that stores its argument instead of appending to self.op
appendOps_replaces(ops, c) ==
    /\ built
    /\ Len(op) + Len(ops.items) <= MaxOps
    /\ op' = ops.items
    /\ tx' = Constructed(tx, op', c)
    /\ passed' = passed \o ops.items
    /\ appended' = TRUE
    /\ lastOp' = <<"appendOps">>
    /\ err' = "ok"
    /\ calls' = <<>>
    /\ UNCHANGED <<built, no_broadcast, wifs>>

appendOps(ops, c) ==
    /\ built
    /\ Len(op) + Len(ops.items) <= MaxOps
    /\ op' = op \o ops.items
    /\ tx' = Constructed(tx, op', c)
    /\ passed' = passed \o ops.items
    /\ appended' = TRUE
    /\ lastOp' = <<"appendOps">>
    /\ err' = "ok"
    /\ calls' = <<>>
    /\ UNCHANGED <<built, no_broadcast, wifs>>

-----------------------------------------------------------------------------
(* appendSigner and appendWif *)

\* appendSigner falling back to the active key for any other permission
appendSigner_defaultsActive(account, permission) ==
    /\ built
    /\ lastOp' = <<"appendSigner">>
    /\ calls' = <<>>
    /\ IF account \notin KnownAccounts
       THEN err' = "AccountNotFound" /\ wifs' = wifs
       ELSE /\ Len(wifs) < MaxWifs
            /\ wifs' = Append(wifs,
                   getKeyForAccount(account,
                       IF permission \in ValidPermissions
                       THEN permission ELSE "active"))
            /\ err' = "ok"
    /\ UNCHANGED <<built, no_broadcast, op, tx, passed, appended>>

appendSigner(account, permission) ==
    /\ built
    /\ lastOp' = <<"appendSigner">>
    /\ calls' = <<>>
    /\ IF account \notin KnownAccounts
       THEN err' = "AccountNotFound" /\ wifs' = wifs
       ELSE IF permission \notin ValidPermissions
       THEN err' = "ValueError" /\ wifs' = wifs
       ELSE /\ Len(wifs) < MaxWifs
            /\ wifs' = Append(wifs, getKeyForAccount(account, permission))
            /\ err' = "ok"
    /\ UNCHANGED <<built, no_broadcast, op, tx, passed, appended>>

\* appendWif that appends without constructing a PrivateKey from the wif
appendWifTo_unvalidated(ws, wif) ==
    IF ~Truthy(wif)
    THEN [wifs |-> ws, err |-> "ok"]
    ELSE [wifs |-> Append(ws, wif), err |-> "ok"]

\* Body of appendWif on key list ws: the list afterwards and the outcome
appendWifTo(ws, wif) ==
    IF ~Truthy(wif)
    THEN [wifs |-> ws, err |-> "ok"]
    ELSE IF ValidKey(wif)
    THEN [wifs |-> Append(ws, wif), err |-> "ok"]
    ELSE [wifs |-> ws, err |-> "InvalidKeyFormat"]

appendWif(wif) ==
    /\ built
    /\ Len(appendWifTo(wifs, wif).wifs) <= MaxWifs
    /\ wifs' = appendWifTo(wifs, wif).wifs
    /\ err' = appendWifTo(wifs, wif).err
    /\ lastOp' = <<"appendWif">>
    /\ calls' = <<>>
    /\ UNCHANGED <<built, no_broadcast, op, tx, passed, appended>>

-----------------------------------------------------------------------------
(* sign *)

\* sign() that stores the new signatures instead of extending the list
sign_overwrites ==
    /\ built
    /\ lastOp' = <<"sign">>
    /\ calls' = <<>>
    /\ IF ~TxShaped(json)
       THEN err' = "ValueError" /\ tx' = tx
       ELSE IF ~AnyTruthy(wifs)
       THEN err' = "MissingKeyError" /\ tx' = tx
       ELSE IF \E i \in 1..Len(wifs) : ~ValidKey(wifs[i])
       THEN err' = "SigningError" /\ tx' = tx
       ELSE IF "signatures" \notin DOMAIN tx
       THEN err' = "KeyError" /\ tx' = tx
       ELSE /\ Len(tx.signatures) + Len(wifs) <= MaxSigs
            /\ tx' = [tx EXCEPT !.signatures = Signatures(wifs, json)]
            /\ err' = "ok"
    /\ UNCHANGED <<built, no_broadcast, op, wifs, passed, appended>>

\* sign() without the check that a key is present
sign_noKeyCheck ==
    /\ built
    /\ lastOp' = <<"sign">>
    /\ calls' = <<>>
    /\ IF ~TxShaped(json)
       THEN err' = "ValueError" /\ tx' = tx
       ELSE IF \E i \in 1..Len(wifs) : ~ValidKey(wifs[i])
       THEN err' = "SigningError" /\ tx' = tx
       ELSE IF "signatures" \notin DOMAIN tx
       THEN err' = "KeyError" /\ tx' = tx
       ELSE /\ Len(tx.signatures) + Len(wifs) <= MaxSigs
            /\ tx' = [tx EXCEPT !.signatures = @ \o Signatures(wifs, json)]
            /\ err' = "ok"
    /\ UNCHANGED <<built, no_broadcast, op, wifs, passed, appended>>

\* sign() that extends self["signatures"] key by key, so that the
\* signatures made before a failing key stay in the record
sign_keepsPartial ==
    /\ built
    /\ lastOp' = <<"sign">>
    /\ calls' = <<>>
    /\ IF ~TxShaped(json)
       THEN err' = "ValueError" /\ tx' = tx
       ELSE IF ~AnyTruthy(wifs)
       THEN err' = "MissingKeyError" /\ tx' = tx
       ELSE IF "signatures" \notin DOMAIN tx
       THEN err' = "KeyError" /\ tx' = tx
       ELSE IF \E i \in 1..Len(wifs) : ~ValidKey(wifs[i])
       THEN LET bad == CHOOSE i \in 1..Len(wifs) :
                           /\ ~ValidKey(wifs[i])
                           /\ \A j \in 1..(i - 1) : ValidKey(wifs[j])
            IN  /\ Len(tx.signatures) + bad - 1 <= MaxSigs
                /\ err' = "SigningError"
                /\ tx' = [tx EXCEPT !.signatures =
                             @ \o Signatures(SubSeq(wifs, 1, bad - 1), json)]
       ELSE /\ Len(tx.signatures) + Len(wifs) <= MaxSigs
            /\ tx' = [tx EXCEPT !.signatures = @ \o Signatures(wifs, json)]
            /\ err' = "ok"
    /\ UNCHANGED <<built, no_broadcast, op, wifs, passed, appended>>

\* sign() that signs with the first pending key only
sign_firstKeyOnly ==
    /\ built
    /\ lastOp' = <<"sign">>
    /\ calls' = <<>>
    /\ IF ~TxShaped(json)
       THEN err' = "ValueError" /\ tx' = tx
       ELSE IF ~AnyTruthy(wifs)
       THEN err' = "MissingKeyError" /\ tx' = tx
       ELSE IF \E i \in 1..Len(wifs) : ~ValidKey(wifs[i])
       THEN err' = "SigningError" /\ tx' = tx
       ELSE IF "signatures" \notin DOMAIN tx
       THEN err' = "KeyError" /\ tx' = tx
       ELSE /\ Len(tx.signatures) + Len(wifs) <= MaxSigs
            /\ tx' = [tx EXCEPT !.signatures =
                         @ \o Signatures(SubSeq(wifs, 1, 1), json)]
            /\ err' = "ok"
    /\ UNCHANGED <<built, no_broadcast, op, wifs, passed, appended>>

sign ==
    /\ built
    /\ lastOp' = <<"sign">>
    /\ calls' = <<>>
    /\ IF ~TxShaped(json)
       THEN err' = "ValueError" /\ tx' = tx
       ELSE IF ~AnyTruthy(wifs)
       THEN err' = "MissingKeyError" /\ tx' = tx
       ELSE IF \E i \in 1..Len(wifs) : ~ValidKey(wifs[i])
       THEN err' = "SigningError" /\ tx' = tx
       ELSE IF "signatures" \notin DOMAIN tx
       THEN err' = "KeyError" /\ tx' = tx
       ELSE /\ Len(tx.signatures) + Len(wifs) <= MaxSigs
            /\ tx' = [tx EXCEPT !.signatures = @ \o Signatures(wifs, json)]
            /\ err' = "ok"
    /\ UNCHANGED <<built, no_broadcast, op, wifs, passed, appended>>

-----------------------------------------------------------------------------
(* broadcast *)

\* What verify_authority can answer, and what broadcast_transaction can do
VerifyOutcomes == {"true", "false", "raise"}
SubmitOutcomes == {"ack", "raise"}

Call(fn, arg, ret) ==
    [fn |-> fn, arg |-> arg, ret |-> ret]

\* broadcast() that submits whatever verify_authority answered
broadcast_unverified ==
    /\ built
    /\ lastOp' = <<"broadcast">>
    /\ IF no_broadcast
       THEN calls' = <<>> /\ err' = "ok"
       ELSE \E v \in VerifyOutcomes \ {"raise"}, b \in SubmitOutcomes :
              /\ calls' = <<Call("verify_authority", json, v),
                            Call("broadcast_transaction", json, b)>>
              /\ err' = IF b = "ack" THEN "ok" ELSE "TransmissionFailure"
    /\ UNCHANGED <<built, no_broadcast, op, wifs, tx, passed, appended>>

\* broadcast() that does not look at no_broadcast
broadcast_alwaysSubmits ==
    /\ built
    /\ lastOp' = <<"broadcast">>
    /\ \E v \in VerifyOutcomes :
          CASE v = "raise" ->
                 /\ calls' = <<Call("verify_authority", json, v)>>
                 /\ err' = "RPCError"
            [] v = "false" ->
                 /\ calls' = <<Call("verify_authority", json, v)>>
                 /\ err' = "InsufficientAuthorityError"
            [] v = "true" ->
                 \E b \in SubmitOutcomes :
                   /\ calls' = <<Call("verify_authority", json, v),
                                 Call("broadcast_transaction", json, b)>>
                   /\ err' = IF b = "ack" THEN "ok"
                             ELSE "TransmissionFailure"
    /\ UNCHANGED <<built, no_broadcast, op, wifs, tx, passed, appended>>

\* broadcast() that drops the signatures when the chain refuses the record
broadcast_resetsOnFailure ==
    /\ built
    /\ lastOp' = <<"broadcast">>
    /\ IF no_broadcast
       THEN calls' = <<>> /\ err' = "ok" /\ tx' = tx
       ELSE \E v \in VerifyOutcomes :
              CASE v = "raise" ->
                     /\ calls' = <<Call("verify_authority", json, v)>>
                     /\ err' = "RPCError"
                     /\ tx' = tx
                [] v = "false" ->
                     /\ calls' = <<Call("verify_authority", json, v)>>
                     /\ err' = "InsufficientAuthorityError"
                     /\ tx' = Update(tx, [signatures |-> <<>>])
                [] v = "true" ->
                     \E b \in SubmitOutcomes :
                       /\ calls' = <<Call("verify_authority", json, v),
                                     Call("broadcast_transaction", json, b)>>
                       /\ err' = IF b = "ack" THEN "ok"
                                 ELSE "TransmissionFailure"
                       /\ tx' = IF b = "ack" THEN tx
                                ELSE Update(tx, [signatures |-> <<>>])
    /\ UNCHANGED <<built, no_broadcast, op, wifs, passed, appended>>

broadcast ==
    /\ built
    /\ lastOp' = <<"broadcast">>
    /\ IF no_broadcast
       THEN calls' = <<>> /\ err' = "ok"
       ELSE \E v \in VerifyOutcomes :
              CASE v = "raise" ->
                     /\ calls' = <<Call("verify_authority", json, v)>>
                     /\ err' = "RPCError"
                [] v = "false" ->
                     /\ calls' = <<Call("verify_authority", json, v)>>
                     /\ err' = "InsufficientAuthorityError"
                [] v = "true" ->
                     \E b \in SubmitOutcomes :
                       /\ calls' = <<Call("verify_authority", json, v),
                                     Call("broadcast_transaction", json, b)>>
                       /\ err' = IF b = "ack" THEN "ok"
                                 ELSE "TransmissionFailure"
    /\ UNCHANGED <<built, no_broadcast, op, wifs, tx, passed, appended>>

-----------------------------------------------------------------------------
(* addSigningInformation *)

\* [x[0] for x in auths]
Firsts(auths) ==
    [i \in 1..Len(auths) |-> auths[i][1]]

\* The first loop writing every delegated account's active authority
RECURSIVE WriteAccountAuths_active(_, _, _)
WriteAccountAuths_active(ra, auths, permission) ==
    IF auths = <<>>
    THEN [required |-> ra, err |-> "ok"]
    ELSE IF Head(auths)[1] \notin KnownAccounts
    THEN [required |-> ra, err |-> "AccountNotFound"]
    ELSE WriteAccountAuths_active(
             Update(ra, Head(auths)[1] :> Account(Head(auths)[1])["active"]),
             Tail(auths), permission)

\* The first loop: required_authorities ra after writing, for each
\* account_auth in order, that account's authority for the permission;
\* the loop stops at the first account the directory does not know.
RECURSIVE WriteAccountAuths(_, _, _)
WriteAccountAuths(ra, auths, permission) ==
    IF auths = <<>>
    THEN [required |-> ra, err |-> "ok"]
    ELSE IF Head(auths)[1] \notin KnownAccounts
    THEN [required |-> ra, err |-> "AccountNotFound"]
    ELSE WriteAccountAuths(
             Update(ra, Head(auths)[1] :> Account(Head(auths)[1])[permission]),
             Tail(auths), permission)

\* The second loop reading every delegated account's active authority
RECURSIVE AccountAuthKeys_active(_, _)
AccountAuthKeys_active(auths, permission) ==
    IF auths = <<>>
    THEN <<>>
    ELSE Firsts(Account(Head(auths)[1])["active"].key_auths)
             \o AccountAuthKeys_active(Tail(auths), permission)

\* The second loop: the keys the account_auths extend missing_signatures by
RECURSIVE AccountAuthKeys(_, _)
AccountAuthKeys(auths, permission) ==
    IF auths = <<>>
    THEN <<>>
    ELSE Firsts(Account(Head(auths)[1])[permission].key_auths)
             \o AccountAuthKeys(Tail(auths), permission)

addSigningInformation(account, permission) ==
    /\ built
    /\ lastOp' = <<"addSigningInformation">>
    /\ calls' = <<>>
    /\ IF account \notin KnownAccounts
       THEN err' = "AccountNotFound" /\ tx' = tx
       ELSE IF permission \notin ValidPermissions
       THEN err' = "KeyError" /\ tx' = tx
       ELSE LET authority == Account(account)[permission]
                first == WriteAccountAuths(account :> authority,
                                           authority.account_auths, permission)
                withRequired ==
                    Update(tx, [required_authorities |-> first.required])
            IN  IF first.err # "ok"
                THEN err' = first.err /\ tx' = withRequired
                ELSE /\ err' = "ok"
                     /\ tx' = Update(withRequired,
                            [missing_signatures |->
                                 Firsts(authority.key_auths)
                                     \o AccountAuthKeys(authority.account_auths,
                                                        permission),
                             blockchain |-> chain_params])
    /\ UNCHANGED <<built, no_broadcast, op, wifs, passed, appended>>

-----------------------------------------------------------------------------
(* appendMissingSignatures *)

\* The loop over missing_signatures ms on key list ws: each key the wallet
\* holds goes through appendWif; the loop stops when appendWif raises.
\* The loop raising when the wallet does not hold a key
RECURSIVE appendEach_strict(_, _)
appendEach_strict(ws, ms) ==
    IF ms = <<>>
    THEN [wifs |-> ws, err |-> "ok"]
    ELSE LET wif == getPrivateKeyForPublicKey(Head(ms))
             step == IF Truthy(wif) THEN appendWifTo(ws, wif)
                     ELSE [wifs |-> ws, err |-> "MissingKeyError"]
         IN  IF step.err # "ok" THEN step
             ELSE appendEach_strict(step.wifs, Tail(ms))

RECURSIVE appendEach(_, _)
appendEach(ws, ms) ==
    IF ms = <<>>
    THEN [wifs |-> ws, err |-> "ok"]
    ELSE LET wif == getPrivateKeyForPublicKey(Head(ms))
             step == IF Truthy(wif) THEN appendWifTo(ws, wif)
                     ELSE [wifs |-> ws, err |-> "ok"]
         IN  IF step.err # "ok" THEN step
             ELSE appendEach(step.wifs, Tail(ms))

appendMissingSignatures ==
    /\ built
    /\ LET done == appendEach(wifs, Get(tx, "missing_signatures", <<>>))
       IN  /\ Len(done.wifs) <= MaxWifs
           /\ wifs' = done.wifs
           /\ err' = done.err
    /\ lastOp' = <<"appendMissingSignatures">>
    /\ calls' = <<>>
    /\ UNCHANGED <<built, no_broadcast, op, tx, passed, appended>>

-----------------------------------------------------------------------------
(* The builder's behaviours: any sequence of method calls.  Two slices of  *)
(* the inputs are explored: Spec varies the operations, the chain head,    *)
(* the seed and the key material; SpecAuth varies the accounts and         *)
(* permissions looked up in the directory and the wallet.                  *)

Calls(opsArgs, chains, signers, materials, lookups) ==
    \/ \E ops \in opsArgs, c \in chains : appendOps(ops, c)
    \/ \E c \in chains : constructTx(c)
    \/ \E s \in signers : appendSigner(s[1], s[2])
    \/ \E w \in materials : appendWif(w)
    \/ sign
    \/ broadcast
    \/ \E l \in lookups : addSigningInformation(l[1], l[2])
    \/ appendMissingSignatures

Next ==
    Calls(OpsArguments, ChainStates,
          {"alice", "dave"} \X {"active", "memo"},
          Materials,
          {"carol", "dave"} \X {"posting", "memo"})

Spec ==
    Init /\ [][Next]_vars

InitAuth ==
    Constructor("None", FALSE)

\* Every known account with every valid permission, an unknown account and
\* an invalid permission
Lookups ==
    (KnownAccounts \X ValidPermissions)
        \cup {<<"dave", "active">>, <<"alice", "memo">>}

NextAuth ==
    Calls({[isList |-> TRUE, items |-> <<>>]},
          {[num |-> 1, prefix |-> 11, now |-> 100]},
          Lookups,
          {"k1", "not-a-key"},
          Lookups)

SpecAuth ==
    InitAuth /\ [][NextAuth]_vars

-----------------------------------------------------------------------------
(* Properties *)

\* The methods a caller drives the builder with
BuilderOps ==
    {"appendOps", "appendSigner", "appendWif", "addSigningInformation",
     "appendMissingSignatures", "sign", "broadcast"}

\* the functions the last broadcast() called, in order
Called ==
    [i \in 1..Len(calls) |-> calls[i].fn]

\* C1 (as claimed): every builder operation leaves signatures a prefix of
\* its later value, and only sign() changes it.
C1_SignaturesOnlyGrow ==
    [][lastOp'[1] \in BuilderOps =>
          /\ IsPrefix(signatures, signatures')
          /\ (signatures' # signatures => lastOp'[1] = "sign")]_vars

\* C1 (amended): every builder operation other than appendOps leaves
\* signatures a prefix of its later value and among those only sign()
\* changes it; appendOps, which rebuilds the record, leaves signatures empty.
C1_SignaturesGrowUntilRebuilt ==
    [][lastOp'[1] \in BuilderOps =>
          IF lastOp'[1] = "appendOps"
          THEN signatures' = <<>>
          ELSE /\ IsPrefix(signatures, signatures')
               /\ (signatures' # signatures => lastOp'[1] = "sign")]_vars

\* a second successful sign(): it extended a list that already held signatures
C1_Witness ==
    /\ lastOp = <<"sign">>
    /\ err = "ok"
    /\ Len(signatures) > Len(wifs)

\* C2 (as claimed): when the signatures present are those made for signer
\* set A, and a disjoint set B has been added since, a successful sign()
\* yields (signatures for A) ++ (signatures for B).
C2_DisjointSignersConcatenate ==
    [][(lastOp'[1] = "sign" /\ err' = "ok") =>
          \A n \in 1..(Len(wifs) - 1) :
             LET A == SubSeq(wifs, 1, n)
                 B == SubSeq(wifs, n + 1, Len(wifs))
             IN  (Range(A) \cap Range(B) = {} /\ signatures = Signatures(A, tx))
                    => signatures' = Signatures(A, tx) \o Signatures(B, tx)]_vars

\* C3: with dry-run off, broadcast_transaction is called only directly after
\* verify_authority answered true on the record being submitted; an answer
\* of false raises InsufficientAuthorityError and nothing is submitted.
C3_VerifiedBeforeSubmitted ==
    (lastOp = <<"broadcast">> /\ ~no_broadcast) =>
        /\ \A i \in 1..Len(calls) :
              calls[i].fn = "broadcast_transaction" =>
                 /\ i > 1
                 /\ calls[i - 1] = Call("verify_authority", tx, "true")
                 /\ calls[i].arg = tx
        /\ (\E i \in 1..Len(calls) :
               calls[i].fn = "verify_authority" /\ calls[i].ret = "false") =>
                 /\ err = "InsufficientAuthorityError"
                 /\ "broadcast_transaction" \notin Range(Called)

\* a record built and signed here whose broadcast verify_authority refused
C3_Witness ==
    /\ lastOp = <<"broadcast">>
    /\ appended
    /\ ~no_broadcast
    /\ err = "InsufficientAuthorityError"
    /\ signatures # <<>>

\* C4: with no_broadcast set, broadcast() calls no broadcast_transaction,
\* succeeds and leaves signatures as they were.
C4_DryRunSubmitsNothing ==
    [][(lastOp'[1] = "broadcast" /\ no_broadcast) =>
          /\ "broadcast_transaction" \notin {calls'[i].fn : i \in 1..Len(calls')}
          /\ err' = "ok"
          /\ signatures' = signatures]_vars

\* a dry-run broadcast of a record built and signed here
C4_Witness ==
    /\ lastOp = <<"broadcast">>
    /\ appended
    /\ no_broadcast
    /\ err = "ok"
    /\ signatures # <<>>

C6_MalformedRejected ==
    [][lastOp'[1] = "appendWif" =>
          \A w \in Materials :
             appendWif(w) =>
                IF ValidKey(w)
                THEN wifs' = Append(wifs, w) /\ err' = "ok"
                ELSE wifs' = wifs /\ err' = "InvalidKeyFormat"]_vars

\* C6 (amended): appendWif raises InvalidKeyFormat on non-empty malformed
\* material and returns without error on empty material, leaving self.wifs
\* as it was in both cases; a well-formed key is appended at the end.
C6_MalformedRejectedEmptyIgnored ==
    [][lastOp'[1] = "appendWif" =>
          \A w \in Materials :
             appendWif(w) =>
                CASE ValidKey(w) -> wifs' = Append(wifs, w) /\ err' = "ok"
                  [] w \in {"", None} -> wifs' = wifs /\ err' = "ok"
                  [] OTHER -> wifs' = wifs /\ err' = "InvalidKeyFormat"]_vars

\* a malformed key refused while keys were already pending
C6_Witness ==
    /\ lastOp = <<"appendWif">>
    /\ err = "InvalidKeyFormat"
    /\ wifs # <<>>

\* C7 (as claimed): every entry of self.wifs is a well-formed private key.
C7_PendingSignersValid ==
    \A i \in 1..Len(wifs) : wifs[i] \in Keys

\* the key list C8 expects of addSigningInformation(a, p): the account's
\* own keys, then those of each account in account_auths, one level deep
C8_Expected(a, p) ==
    LET own == Account(a)[p]
        keysOf(auth) == [i \in 1..Len(auth.key_auths) |-> auth.key_auths[i][1]]
        upTo[n \in 0..Len(own.account_auths)] ==
            IF n = 0 THEN keysOf(own)
            ELSE upTo[n - 1] \o keysOf(Account(own.account_auths[n][1])[p])
    IN  upTo[Len(own.account_auths)]

\* C8: a successful addSigningInformation(account, permission) leaves
\* missing_signatures equal to the account's key_auths keys followed by the
\* key_auths keys, for the same permission, of each account in its
\* account_auths, in order, with repeats kept and no deeper expansion.
C8_MissingSignaturesOneLevel ==
    [][(lastOp'[1] = "addSigningInformation" /\ err' = "ok") =>
          \A a \in DOMAIN tx'.required_authorities, p \in ValidPermissions :
             addSigningInformation(a, p) =>
                tx'.missing_signatures = C8_Expected(a, p)]_vars

\* alice/active: bob's keys follow, pubA is repeated, carol is not expanded
C8_Witness ==
    /\ lastOp = <<"addSigningInformation">>
    /\ err = "ok"
    /\ "alice" \in DOMAIN tx.required_authorities
    /\ tx.missing_signatures = <<"pubA", "pubB", "pubA">>

\* the private keys of the public keys of ms the wallet holds, in order
C9_Held(ms) ==
    LET held == SelectSeq(ms, LAMBDA pub : getPrivateKeyForPublicKey(pub) # None)
    IN  [i \in 1..Len(held) |-> getPrivateKeyForPublicKey(held[i])]

\* C9: appendMissingSignatures does not fail on keys the wallet lacks; it
\* leaves self.wifs equal to its previous value followed by the private
\* keys of the held public keys, in missing_signatures order.
C9_HeldKeysAppended ==
    [][lastOp'[1] = "appendMissingSignatures" =>
          /\ err' = "ok"
          /\ wifs' = wifs \o C9_Held(Get(tx, "missing_signatures", <<>>))]_vars

\* pubP is not held and was skipped, pubA's key followed the pending k2
C9_Witness ==
    /\ lastOp = <<"appendMissingSignatures">>
    /\ err = "ok"
    /\ Get(tx, "missing_signatures", <<>>) = <<"pubP", "pubA">>
    /\ wifs = <<"k2", "k1">>

\* C10: once appendOps has been called, operations is the canonical form of
\* every descriptor passed so far, in call order; and constructTx run on a
\* record as appendOps or constructTx left it changes nothing but
\* ref_block_num, ref_block_prefix and expiration.
C10_OperationsCanonical ==
    [][/\ appended' =>
            /\ "operations" \in DOMAIN tx'
            /\ tx'.operations = [i \in 1..Len(passed') |-> [type |-> passed'[i][2]]]
       /\ (lastOp'[1] = "constructTx" /\ lastOp[1] \in {"appendOps", "constructTx"}) =>
            /\ DOMAIN tx' = DOMAIN tx
            /\ \A k \in DOMAIN tx \ {"ref_block_num", "ref_block_prefix",
                                    "expiration"} : tx'[k] = tx[k]]_vars

\* two different operations, appended and then rebuilt under another head
C10_Witness ==
    /\ lastOp = <<"constructTx">>
    /\ appended
    /\ Len(tx.operations) = 2
    /\ tx.operations[1] # tx.operations[2]
    /\ tx.ref_block_num = 2

\* the key list C11 derives from a stored required_authorities ra: for some
\* account of ra taken as the target, its keys followed by the keys stored
\* for each account of its account_auths, in order
C11_Derived(ra) ==
    {ks \in {LET own == ra[a]
                 keysOf(auth) ==
                     [i \in 1..Len(auth.key_auths) |-> auth.key_auths[i][1]]
                 upTo[n \in 0..Len(own.account_auths)] ==
                     IF n = 0 THEN keysOf(own)
                     ELSE IF own.account_auths[n][1] \in DOMAIN ra
                     THEN upTo[n - 1] \o keysOf(ra[own.account_auths[n][1]])
                     ELSE <<"?">>
             IN  upTo[Len(own.account_auths)] : a \in DOMAIN ra} :
        "?" \notin Range(ks)}

\* C11 (as claimed): whenever required_authorities is present,
\* missing_signatures is the key list derived from the authorities stored
\* in it, also after an addSigningInformation that raised on a delegate.
C11_MissingSignaturesFresh ==
    "required_authorities" \in DOMAIN tx =>
        /\ "missing_signatures" \in DOMAIN tx
        /\ tx.missing_signatures \in C11_Derived(tx.required_authorities)

\* C12: a broadcast() that raised InsufficientAuthorityError or failed in
\* broadcast_transaction leaves the record and self.wifs (and self.op) as
\* they were, and broadcast() can be called again on that state.
C12_FailedBroadcastKeepsState ==
    [][(/\ lastOp'[1] = "broadcast"
        /\ err' \in {"InsufficientAuthorityError", "TransmissionFailure"}) =>
          /\ tx' = tx
          /\ wifs' = wifs
          /\ op' = op
          /\ built']_vars

\* a record built and signed here whose submission the chain rejected
C12_Witness ==
    /\ lastOp = <<"broadcast">>
    /\ err = "TransmissionFailure"
    /\ appended
    /\ wifs # <<>>
    /\ signatures # <<>>

\* C13: a sign() that raises, whatever the exception (ValueError on a
\* record that is not transaction-shaped, MissingKeyError, a failure while
\* signing with a pending key), leaves signatures as they were.
C13_FailedSignKeepsSignatures ==
    [][(lastOp'[1] = "sign" /\ err' # "ok") =>
          /\ signatures' = signatures
          /\ tx' = tx]_vars

\* signing failed on a pending not-found entry after an earlier sign()
C13_Witness ==
    /\ lastOp = <<"sign">>
    /\ err = "SigningError"
    /\ signatures # <<>>
    /\ \E i \in 1..Len(wifs) : wifs[i] \in Keys

\* C14: a successful sign() adds one signature per entry of self.wifs, in
\* the order of self.wifs, after the signatures already present.
C14_OneSignaturePerSigner ==
    [][(lastOp'[1] = "sign" /\ err' = "ok") =>
          /\ Len(signatures') = Len(signatures) + Len(wifs)
          /\ IsPrefix(signatures, signatures')
          /\ \A i \in 1..Len(wifs) :
                signatures'[Len(signatures) + i].key = wifs[i]]_vars

\* two different pending keys signed after a signature was already present
C14_Witness ==
    /\ lastOp = <<"sign">>
    /\ err = "ok"
    /\ wifs = <<"k1", "k2">>
    /\ Len(signatures) = 3
    /\ signatures[2].key = "k1"
    /\ signatures[3].key = "k2"

\* C15 (as claimed): __init__ raises ValueError, and no builder exists, for
\* every seed that is not a transaction-shaped record: values that are not
\* mappings, falsy ones included, and mappings without the transaction
\* fields.
C15_NonTxSeedRejected ==
    (lastOp[1] = "__init__"
        /\ lastOp[2] \in {"EmptyString", "String", "OtherMapping"}) =>
            (~built /\ err = "ValueError")

\* C15 (amended): __init__ raises ValueError, and no builder exists, exactly
\* for a truthy seed that is not a mapping; a falsy seed is taken as no seed
\* and gives an empty record, and a mapping is taken as the record as it
\* is, with or without the transaction fields.
C15_TruthyNonMappingRejected ==
    lastOp[1] = "__init__" =>
        CASE lastOp[2] = "String" -> ~built /\ err = "ValueError"
          [] lastOp[2] \in {"None", "EmptyString"} ->
                built /\ err = "ok" /\ tx = <<>>
          [] OTHER ->
                built /\ err = "ok" /\ tx = SeedRecord(lastOp[2])

\* construction from a non-empty string was refused
C15_Witness ==
    /\ lastOp = <<"__init__", "String">>
    /\ ~built
    /\ err = "ValueError"

\* C16 (as claimed): sign() succeeds only on a record whose operations are
\* not empty.
C16_SignNeedsOperations ==
    (lastOp = <<"sign">> /\ err = "ok") => tx.operations # <<>>

\* The accounts the authority of account a for permission p delegates to
C17_Delegates(a, p) ==
    {Account(a)[p].account_auths[i][1] :
         i \in 1..Len(Account(a)[p].account_auths)}

\* C17 (as claimed): a successful addSigningInformation(a, p) leaves
\* required_authorities holding a and every account a's authority delegates
\* to, each with its own authority for p, and keeps every entry the
\* mapping held before the call.
C17_RequiredAuthoritiesAdded ==
    [][lastOp'[1] = "addSigningInformation" /\ err' = "ok" =>
        \A l \in Lookups : addSigningInformation(l[1], l[2]) =>
            LET ra == tx'.required_authorities
                old == Get(tx, "required_authorities", <<>>)
                written == {l[1]} \cup C17_Delegates(l[1], l[2])
            IN  /\ written \subseteq DOMAIN ra
                /\ \A x \in written : ra[x] = Account(x)[l[2]]
                /\ \A x \in DOMAIN old :
                       x \in DOMAIN ra /\ (x \notin written => ra[x] = old[x])]_vars

\* C17 (amended): a successful addSigningInformation(a, p) leaves
\* required_authorities holding exactly a and the accounts a's authority
\* delegates to, each with its own authority for p: no account reached
\* only through a delegate, and no entry of an earlier call.
C17_RequiredAuthoritiesReplaced ==
    [][lastOp'[1] = "addSigningInformation" /\ err' = "ok" =>
        \A l \in Lookups : addSigningInformation(l[1], l[2]) =>
            LET ra == tx'.required_authorities
            IN  /\ DOMAIN ra = {l[1]} \cup C17_Delegates(l[1], l[2])
                /\ \A x \in DOMAIN ra : ra[x] = Account(x)[l[2]]]_vars

\* alice's active authority was written with its delegate bob, whose own
\* delegate carol is absent
C17_Witness ==
    /\ lastOp = <<"addSigningInformation">>
    /\ err = "ok"
    /\ DOMAIN tx.required_authorities = {"alice", "bob"}
    /\ tx.required_authorities["alice"] = Account("alice")["active"]
    /\ Firsts(tx.required_authorities["bob"].account_auths) = <<"carol">>

\* C18 (as claimed): appendSigner(account, permission) with a permission
\* other than active, posting or owner raises the permission error and
\* leaves wifs unchanged; with one of the three it appends exactly the key
\* the wallet returns for the account and permission.
C18_SignerByPermission ==
    [][lastOp'[1] = "appendSigner" =>
        \A l \in AccountNames \X Permissions : appendSigner(l[1], l[2]) =>
            IF l[2] \notin {"active", "posting", "owner"}
            THEN err' = "ValueError" /\ wifs' = wifs
            ELSE wifs' = Append(wifs, getKeyForAccount(l[1], l[2]))]_vars

\* C18 (amended): appendSigner(account, permission) for an account the
\* directory does not know fails with the directory's error whatever the
\* permission and leaves wifs unchanged; for a known account, a permission
\* other than active, posting or owner raises the permission error and
\* leaves wifs unchanged, and one of the three appends exactly the key the
\* wallet returns for the account and permission.
C18_KnownSignerByPermission ==
    [][lastOp'[1] = "appendSigner" =>
        \A l \in AccountNames \X Permissions : appendSigner(l[1], l[2]) =>
            IF l[1] \notin {"alice", "bob", "carol"}
            THEN err' = "AccountNotFound" /\ wifs' = wifs
            ELSE IF l[2] \notin {"active", "posting", "owner"}
            THEN err' = "ValueError" /\ wifs' = wifs
            ELSE /\ err' = "ok"
                 /\ wifs' = Append(wifs, getKeyForAccount(l[1], l[2]))]_vars

\* an appendSigner with an invalid permission was refused on a builder
\* that already held a key
C18_Witness ==
    /\ lastOp = <<"appendSigner">>
    /\ err = "ValueError"
    /\ wifs = <<"k1">>

\* C19 (as claimed): the operations of the record before appendOps are a
\* prefix of the operations of the record after it.
C19_AppendOpsKeepsRecordOps ==
    [][lastOp'[1] = "appendOps" =>
        IsPrefix(Get(tx, "operations", <<>>), tx'.operations)]_vars

=============================================================================
